---- MODULE Spec2Model ----
(***************************************************************************)
(* Model of the book_alchemy Flask application (app.py): the four request  *)
(* handlers home, add_author, add_book and delete_book running against one *)
(* relational store with the tables authors and books.                     *)
(*                                                                         *)
(* Text is a sequence of character codes (65 = "A", 97 = "a", 32 = " ",    *)
(* 37 = "%", 95 = "_", 45 = "-", 48..57 = "0".."9"), so that trimming,    *)
(* LIKE matching, ordering and parsing are computed, not assumed.          *)
(***************************************************************************)
EXTENDS Integers, Sequences, FiniteSets, TLC

\* Largest author / book identifier the store hands out.
MaxAuthorId == 2
MaxBookId == 2

\* Concurrent request slots (Flask serves requests on separate threads).
Reqs == {"r1", "r2"}

\* SQL NULL / Python None; a present value v is kept as it is (text, <<y, m, d>>)
\* or, for an integer, as <<v>>
NULL == <<>>

VARIABLES
    authors,   \* table authors: id -> [name, birth_date, date_of_death]
    books,     \* table books:   id -> [isbn, title, publication_year, author_id]
    pc,        \* per request slot: position inside its handler
    lv,        \* per request slot: the handler's local variables
    last,      \* the response most recently sent: [kind, status, message, rows]
               \* and, for the listing, the q and sort handed to the template
    pre        \* history: per slot, the tables as its latest delete_book found
               \* them and the book it named, kept until another request writes
               \* or the slot takes its next request

vars == <<authors, books, pc, lv, last, pre>>

-----------------------------------------------------------------------------
(* Text helpers *)

IsSpace(c) == c \in {9, 10, 11, 12, 13, 32}

RECURSIVE LStrip(_)
LStrip(s) == IF s # <<>> /\ IsSpace(Head(s)) THEN LStrip(Tail(s)) ELSE s

RECURSIVE RStrip(_)
RStrip(s) ==
    IF s # <<>> /\ IsSpace(s[Len(s)]) THEN RStrip(SubSeq(s, 1, Len(s) - 1)) ELSE s

\* str.strip()
Strip(s) == RStrip(LStrip(s))

\* SQL lower(): ASCII letters only
Lower(c) == IF c >= 65 /\ c <= 90 THEN c + 32 ELSE c

LowerStr(s) == [i \in 1..Len(s) |-> Lower(s[i])]

\* SQL LIKE: "%" matches any run of characters, "_" any one character
RECURSIVE LikeMatch(_, _)
LikeMatch(p, t) ==
    IF p = <<>> THEN t = <<>>
    ELSE IF Head(p) = 37
         THEN LikeMatch(Tail(p), t) \/ (t # <<>> /\ LikeMatch(p, Tail(t)))
    ELSE IF Head(p) = 95
         THEN t # <<>> /\ LikeMatch(Tail(p), Tail(t))
    ELSE t # <<>> /\ Head(p) = Head(t) /\ LikeMatch(Tail(p), Tail(t))

\* column.ilike(pattern): lower(column) LIKE lower(pattern)
ILike(col, pattern) == LikeMatch(LowerStr(pattern), LowerStr(col))

\* Binary collation: a < b
RECURSIVE StrLess(_, _)
StrLess(a, b) ==
    IF b = <<>> THEN FALSE
    ELSE IF a = <<>> THEN TRUE
    ELSE IF Head(a) # Head(b) THEN Head(a) < Head(b)
    ELSE StrLess(Tail(a), Tail(b))

StrLeq(a, b) == a = b \/ StrLess(a, b)

IsDigit(c) == c >= 48 /\ c <= 57

\* int(text): optional sign, then digits with single underscores between them
RECURSIVE DigitsOk(_, _)
DigitsOk(s, prevDigit) ==
    IF s = <<>> THEN prevDigit
    ELSE IF IsDigit(Head(s)) THEN DigitsOk(Tail(s), TRUE)
    ELSE IF Head(s) = 95 THEN prevDigit /\ Tail(s) # <<>> /\ IsDigit(s[2])
                              /\ DigitsOk(Tail(s), FALSE)
    ELSE FALSE

Unsigned(s) == IF s # <<>> /\ Head(s) \in {43, 45} THEN Tail(s) ELSE s

IsIntLiteral(s) == DigitsOk(Unsigned(s), FALSE)

RECURSIVE DigitsValue(_, _)
DigitsValue(s, acc) ==
    IF s = <<>> THEN acc
    ELSE IF Head(s) = 95 THEN DigitsValue(Tail(s), acc)
    ELSE DigitsValue(Tail(s), 10 * acc + (Head(s) - 48))

IntValue(s) ==
    IF s # <<>> /\ Head(s) = 45 THEN 0 - DigitsValue(Unsigned(s), 0)
    ELSE DigitsValue(Unsigned(s), 0)

\* date.fromisoformat(text), the YYYY-MM-DD form
IsLeap(y) == (y % 4 = 0 /\ y % 100 # 0) \/ y % 400 = 0

DaysInMonth(y, m) ==
    IF m = 2 THEN (IF IsLeap(y) THEN 29 ELSE 28)
    ELSE IF m \in {4, 6, 9, 11} THEN 30 ELSE 31

IsoShape(s) ==
    /\ Len(s) = 10
    /\ s[5] = 45 /\ s[8] = 45
    /\ \A i \in {1, 2, 3, 4, 6, 7, 9, 10} : IsDigit(s[i])

IsoYear(s) == DigitsValue(SubSeq(s, 1, 4), 0)
IsoMonth(s) == DigitsValue(SubSeq(s, 6, 7), 0)
IsoDay(s) == DigitsValue(SubSeq(s, 9, 10), 0)

IsIsoDate(s) ==
    /\ IsoShape(s)
    /\ IsoYear(s) >= 1
    /\ IsoMonth(s) >= 1 /\ IsoMonth(s) <= 12
    /\ IsoDay(s) >= 1 /\ IsoDay(s) <= DaysInMonth(IsoYear(s), IsoMonth(s))

FromIsoFormat(s) == <<IsoYear(s), IsoMonth(s), IsoDay(s)>>

-----------------------------------------------------------------------------
(* Request inputs *)

\* name field of the add-author form: "", " ", " B"
NameInputs == { <<>>, <<32>>, <<32, 66>> }

\* birth_date field: "2000-02-29", "2001-02-29" (no such day)
BirthInputs ==
    { <<50, 48, 48, 48, 45, 48, 50, 45, 50, 57>>,
      <<50, 48, 48, 49, 45, 48, 50, 45, 50, 57>> }

\* date_of_death field: "", "x"
DeathInputs == { <<>>, <<120>> }

AuthorForms == [name : NameInputs, birth_date : BirthInputs, date_of_death : DeathInputs]

\* isbn field: "", "1", "2 "
IsbnInputs == { <<>>, <<49>>, <<50, 32>> }

\* title field: "", "a"
TitleInputs == { <<>>, <<97>> }

\* publication_year field: "", "x"
YearInputs == { <<>>, <<120>> }

\* author_id field: "", "1", "2", "x"
AuthorIdInputs == { <<>>, <<49>>, <<50>>, <<120>> }

BookForms ==
    [isbn : IsbnInputs, title : TitleInputs,
     publication_year : YearInputs, author_id : AuthorIdInputs]

\* q parameter: absent, " ", "ab", "1", "_", " B", "a%b"
QInputs == { <<>>, <<32>>, <<97, 98>>, <<49>>, <<95>>, <<32, 66>>, <<97, 37, 98>> }

\* sort parameter: the default, "author", and an unrecognised value
SortInputs == { "title", "author", "isbn" }

\* msg parameter: absent, "m"
MsgInputs == { <<>>, <<109>> }

-----------------------------------------------------------------------------
(* The store: data_models.py and the database behind db.session *)

SetMax(S) == CHOOSE x \in S : \A y \in S : y <= x

\* INTEGER PRIMARY KEY: the next row id is one more than the largest in use
NewId(table) == IF DOMAIN table = {} THEN 1 ELSE SetMax(DOMAIN table) + 1

\* Faulty variant: the UNIQUE constraint on books.isbn is missing
IsbnUniqueOff(isbn) == TRUE

\* UNIQUE constraint on books.isbn
IsbnUnique(isbn) == \A b \in DOMAIN books : books[b].isbn # isbn

\* FOREIGN KEY books.author_id -> authors.id, checked on insert
AuthorExists(author_id) == author_id \in DOMAIN authors

\* Faulty variant: the insert is checked for the ISBN only, not for the author reference
InsertBookOkNoFk(row) == IsbnUnique(row.isbn)

\* INSERT INTO books is accepted (no IntegrityError)
InsertBookOk(row) == IsbnUnique(row.isbn) /\ AuthorExists(row.author_id)

\* Books of one author
BooksOf(author_id) == { b \in DOMAIN books : books[b].author_id = author_id }

\* Faulty variant: an author row can be deleted whatever references it
DeleteAuthorAlways(author_id) == TRUE

\* DELETE FROM authors is accepted (no IntegrityError): no book references the row
DeleteAuthorOk(author_id) == BooksOf(author_id) = {}

Without(table, id) == [k \in DOMAIN table \ {id} |-> table[k]]

With(table, id, row) == [k \in DOMAIN table \cup {id} |-> IF k = id THEN row ELSE table[k]]

\* Book.query.join(Author): one row per book whose author exists
Joined ==
    { [id |-> b, isbn |-> books[b].isbn, title |-> books[b].title,
       author |-> authors[books[b].author_id].name] :
      b \in { x \in DOMAIN books : books[x].author_id \in DOMAIN authors } }

\* All orderings of a finite set
Orderings(S) ==
    { s \in [1..Cardinality(S) -> S] : \A i, j \in DOMAIN s : i # j => s[i] # s[j] }

Response(kind, status, message, rows) ==
    [kind |-> kind, status |-> status, message |-> message, rows |-> rows,
     q |-> <<>>, sort |-> ""]

\* A handler's locals outside delete_book / add_book
NoBook == [isbn |-> <<>>, title |-> <<>>, publication_year |-> NULL, author_id |-> 0]

NoLocals == [book_id |-> 0, author_id |-> 0, title |-> <<>>, book |-> NoBook]

EmptyTable == [k \in {} |-> NULL]

NoSnap == [on |-> FALSE, book_id |-> 0, authors |-> EmptyTable, books |-> EmptyTable]

\* A write committed by slot r ends the undisturbed run of every other slot
Disturb(r) == [x \in Reqs |-> IF x = r THEN pre[x] ELSE NoSnap]

\* Slot r takes a new request
Forget(r) == [pre EXCEPT ![r] = NoSnap]

NoHistory == [x \in Reqs |-> NoSnap]

-----------------------------------------------------------------------------
(* home *)

\* or_(Book.title.ilike(like), Book.isbn.ilike(like), Author.name.ilike(like))
Matches(row, q) ==
    LET like == <<37>> \o q \o <<37>>
    IN  ILike(row.title, like) \/ ILike(row.isbn, like) \/ ILike(row.author, like)

\* query.filter(...) when q is non-empty, the whole join otherwise
Filtered(q) == IF q # <<>> THEN { row \in Joined : Matches(row, q) } ELSE Joined

\* Faulty variant: the author ordering has no second key
OrderOkNoTieBreak(sort, a, b) ==
    IF sort = "author" THEN StrLeq(a.author, b.author) ELSE StrLeq(a.title, b.title)

\* order_by: row a may come before row b
OrderOk(sort, a, b) ==
    IF sort = "author"
    THEN StrLess(a.author, b.author) \/ (a.author = b.author /\ StrLeq(a.title, b.title))
    ELSE StrLeq(a.title, b.title)

Ordered(sort, s) == \A i, j \in DOMAIN s : i < j => OrderOk(sort, s[i], s[j])

HomeMessage(q, msg, rows) ==
    IF msg # <<>> THEN <<"Msg", msg>>
    ELSE IF q # <<>> /\ Len(rows) = 0 THEN <<"NoMatch", q>>
    ELSE NULL

\* Line 54: render_template("home.html", books=books, sort=sort, q=q, message=message)
Rendered(rows, sort, q, message) ==
    [Response("home", 200, message, rows) EXCEPT !.q = q, !.sort = sort]

Home(r, q_raw, sort, msg_raw) ==
    /\ pc[r] = "idle"
    /\ LET q   == Strip(q_raw)
           msg == Strip(msg_raw)
       IN  \E rows \in Orderings(Filtered(q)) :
               /\ Ordered(sort, rows)
               /\ last' = Rendered(rows, sort, q, HomeMessage(q, msg, rows))
    /\ pre' = Forget(r)
    /\ UNCHANGED <<authors, books, pc, lv>>

-----------------------------------------------------------------------------
(* add_author *)

DateOk(raw) == raw = <<>> \/ IsIsoDate(raw)

DateOf(raw) == IF raw # <<>> THEN FromIsoFormat(raw) ELSE NULL

\* GET /add_author
AddAuthorGet(r) ==
    /\ pc[r] = "idle"
    /\ last' = Response("add_author", 200, NULL, <<>>)
    /\ pre' = Forget(r)
    /\ UNCHANGED <<authors, books, pc, lv>>

\* POST /add_author
AddAuthor(r, form) ==
    /\ pc[r] = "idle"
    /\ LET name              == Strip(form.name)
           birth_date_raw    == Strip(form.birth_date)
           date_of_death_raw == Strip(form.date_of_death)
       IN  IF ~DateOk(birth_date_raw) \/ ~DateOk(date_of_death_raw)
           THEN \* ValueError from date.fromisoformat, not caught
                /\ last' = Response("add_author", 500, NULL, <<>>)
                /\ pre' = Forget(r)
                /\ UNCHANGED authors
           ELSE IF name = <<>>
           THEN /\ last' = Response("add_author", 200, <<"NameRequired">>, <<>>)
                /\ pre' = Forget(r)
                /\ UNCHANGED authors
           ELSE /\ NewId(authors) <= MaxAuthorId
                /\ authors' = With(authors, NewId(authors),
                                   [name |-> name,
                                    birth_date |-> DateOf(birth_date_raw),
                                    date_of_death |-> DateOf(date_of_death_raw)])
                /\ last' = Response("add_author", 200, <<"AuthorAdded", name>>, <<>>)
                /\ pre' = NoHistory
    /\ UNCHANGED <<books, pc, lv>>

-----------------------------------------------------------------------------
(* add_book *)

\* Line 91: Author.query.order_by(Author.name.asc()).all() is read before the form
\* is looked at; the list only feeds the rendered page, which is not kept
AddBookQuery(r) ==
    /\ pc[r] = "idle"
    /\ lv' = [lv EXCEPT ![r] = NoLocals]
    /\ pc' = [pc EXCEPT ![r] = "add_book"]
    /\ pre' = Forget(r)
    /\ UNCHANGED <<authors, books, last>>

\* GET /add_book
AddBookGet(r) ==
    /\ pc[r] = "add_book"
    /\ last' = Response("add_book", 200, NULL, <<>>)
    /\ pc' = [pc EXCEPT ![r] = "idle"]
    /\ lv' = [lv EXCEPT ![r] = NoLocals]
    /\ UNCHANGED <<authors, books, pre>>

IntOk(raw) == raw = <<>> \/ IsIntLiteral(raw)

\* Faulty variant: the IntegrityError is not caught
IsbnConflictUncaught(r, isbn) ==
    /\ last' = Response("add_book", 500, NULL, <<>>)
    /\ UNCHANGED <<books, pre>>

\* Line 118-123: except IntegrityError: rollback and the "ISBN already exists" message
IsbnConflict(r, isbn) ==
    /\ last' = Response("add_book", 200, <<"IsbnExists", isbn>>, <<>>)
    /\ UNCHANGED <<books, pre>>

IntOf(raw) == IF raw # <<>> THEN <<IntValue(raw)>> ELSE NULL

\* POST /add_book, line 93-113: the form is read and checked, the Book is built
\* and added to the session
AddBookPost(r, form) ==
    /\ pc[r] = "add_book"
    /\ LET isbn                 == Strip(form.isbn)
           title                == Strip(form.title)
           publication_year_raw == Strip(form.publication_year)
           author_id_raw        == Strip(form.author_id)
       IN  IF isbn = <<>> \/ title = <<>> \/ author_id_raw = <<>>
           THEN /\ last' = Response("add_book", 200, <<"FieldsRequired">>, <<>>)
                /\ pc' = [pc EXCEPT ![r] = "idle"]
                /\ lv' = [lv EXCEPT ![r] = NoLocals]
           ELSE IF ~IntOk(publication_year_raw) \/ ~IsIntLiteral(author_id_raw)
           THEN \* ValueError from int(), not caught
                /\ last' = Response("add_book", 500, NULL, <<>>)
                /\ pc' = [pc EXCEPT ![r] = "idle"]
                /\ lv' = [lv EXCEPT ![r] = NoLocals]
           ELSE /\ lv' = [lv EXCEPT ![r].book =
                              [isbn |-> isbn, title |-> title,
                               publication_year |-> IntOf(publication_year_raw),
                               author_id |-> IntValue(author_id_raw)]]
                /\ pc' = [pc EXCEPT ![r] = "commit"]
                /\ UNCHANGED last
    /\ UNCHANGED <<authors, books, pre>>

\* Line 115-123: db.session.commit(), or rollback on IntegrityError
AddBookCommit(r) ==
    /\ pc[r] = "commit"
    /\ IF InsertBookOk(lv[r].book)
       THEN /\ NewId(books) <= MaxBookId
            /\ books' = With(books, NewId(books), lv[r].book)
            /\ last' = Response("add_book", 200, <<"BookAdded", lv[r].book.title>>, <<>>)
            /\ pre' = Disturb(r)
       ELSE IsbnConflict(r, lv[r].book.isbn)
    /\ pc' = [pc EXCEPT ![r] = "idle"]
    /\ lv' = [lv EXCEPT ![r] = NoLocals]
    /\ UNCHANGED authors

-----------------------------------------------------------------------------
(* delete_book *)

\* Line 131-133: Book.query.get_or_404(book_id); author_id = book.author_id
DeleteBookGet(r, book_id) ==
    /\ pc[r] = "idle"
    /\ IF book_id \in DOMAIN books
       THEN /\ lv' = [lv EXCEPT ![r] = [NoLocals EXCEPT
                          !.book_id = book_id,
                          !.author_id = books[book_id].author_id,
                          !.title = books[book_id].title]]
            /\ pc' = [pc EXCEPT ![r] = "delete_book"]
            /\ pre' = [pre EXCEPT ![r] = [on |-> TRUE, book_id |-> book_id,
                                          authors |-> authors, books |-> books]]
            /\ UNCHANGED last
       ELSE /\ last' = Response("delete_book", 404, NULL, <<>>)
            /\ pre' = Forget(r)
            /\ UNCHANGED <<pc, lv>>
    /\ UNCHANGED <<authors, books>>

\* Line 135-136: db.session.delete(book); db.session.commit()
\* (a row another request already deleted is only warned about)
DeleteBookCommit(r) ==
    /\ pc[r] = "delete_book"
    /\ books' = Without(books, lv[r].book_id)
    /\ pc' = [pc EXCEPT ![r] = "count"]
    /\ pre' = IF lv[r].book_id \in DOMAIN books THEN Disturb(r) ELSE pre
    /\ UNCHANGED <<authors, lv, last>>

\* Line 145: redirect(url_for("home", msg=...))
Redirect(r) ==
    /\ last' = Response("delete_book", 302, <<"Deleted", lv[r].title>>, <<>>)
    /\ pc' = [pc EXCEPT ![r] = "idle"]
    /\ lv' = [lv EXCEPT ![r] = NoLocals]

\* Faulty variant: the author is never cleaned up
DeleteBookCountNoCascade(r) ==
    /\ pc[r] = "count"
    /\ Redirect(r)
    /\ UNCHANGED <<authors, books, pre>>

\* Line 138-139: remaining = Book.query.filter_by(author_id=author_id).count()
DeleteBookCount(r) ==
    /\ pc[r] = "count"
    /\ LET remaining == Cardinality(BooksOf(lv[r].author_id))
       IN  IF remaining = 0
           THEN /\ pc' = [pc EXCEPT ![r] = "author"]
                /\ UNCHANGED <<lv, last, pre>>
           ELSE /\ Redirect(r)
                /\ UNCHANGED pre
    /\ UNCHANGED <<authors, books>>

\* Faulty variant: the author delete is never committed
DeleteBookAuthorSkipped(r) ==
    /\ pc[r] = "author"
    /\ Redirect(r)
    /\ UNCHANGED <<authors, books, pre>>

\* Line 140-143: author = Author.query.get(author_id); delete and commit if found
DeleteBookAuthor(r) ==
    /\ pc[r] = "author"
    /\ IF lv[r].author_id \notin DOMAIN authors
       THEN /\ Redirect(r)
            /\ UNCHANGED <<authors, pre>>
       ELSE IF DeleteAuthorOk(lv[r].author_id)
       THEN /\ authors' = Without(authors, lv[r].author_id)
            /\ Redirect(r)
            /\ pre' = Disturb(r)
       ELSE \* IntegrityError from the commit, not caught
            /\ last' = Response("delete_book", 500, NULL, <<>>)
            /\ pc' = [pc EXCEPT ![r] = "idle"]
            /\ lv' = [lv EXCEPT ![r] = NoLocals]
            /\ UNCHANGED <<authors, pre>>
    /\ UNCHANGED books

-----------------------------------------------------------------------------

Init ==
    /\ authors = EmptyTable
    /\ books = EmptyTable
    /\ pc = [r \in Reqs |-> "idle"]
    /\ lv = [r \in Reqs |-> NoLocals]
    /\ last = Response("none", 200, NULL, <<>>)
    /\ pre = NoHistory

Next ==
    \/ \E r \in Reqs, msg \in MsgInputs : Home(r, <<>>, "title", msg)
    \/ \E r \in Reqs : AddAuthorGet(r)
    \/ \E r \in Reqs, form \in AuthorForms : AddAuthor(r, form)
    \/ \E r \in Reqs : AddBookQuery(r)
    \/ \E r \in Reqs : AddBookGet(r)
    \/ \E r \in Reqs, form \in BookForms : AddBookPost(r, form)
    \/ \E r \in Reqs : AddBookCommit(r)
    \/ \E r \in Reqs, book_id \in 1..MaxBookId : DeleteBookGet(r, book_id)
    \/ \E r \in Reqs : DeleteBookCommit(r)
    \/ \E r \in Reqs : DeleteBookCount(r)
    \/ \E r \in Reqs : DeleteBookAuthor(r)

Spec == Init /\ [][Next]_vars

-----------------------------------------------------------------------------
(* Listing on its own: home applied to every small store *)

\* Names "Ab", "B"; titles "a", "Ba"; ISBNs "1", "2", "12"
QueryNames == { <<65, 98>>, <<66>> }
QueryTitles == { <<97>>, <<66, 97>> }
QueryIsbns == { <<49>>, <<50>>, <<49, 50>> }

QueryAuthorTables ==
    UNION { [1..n -> [name : QueryNames, birth_date : {NULL}, date_of_death : {NULL}]] :
            n \in 0..MaxAuthorId }

QueryBookTables(ids) ==
    { t \in UNION { [1..m -> [isbn : QueryIsbns, title : QueryTitles,
                              publication_year : {NULL}, author_id : ids]] :
                    m \in 0..Cardinality(QueryIsbns) } :
          \A i, j \in DOMAIN t : i # j => t[i].isbn # t[j].isbn }

InitQuery ==
    /\ authors \in QueryAuthorTables
    /\ books \in QueryBookTables(DOMAIN authors)
    /\ pc = [r \in Reqs |-> "idle"]
    /\ lv = [r \in Reqs |-> NoLocals]
    /\ last = Response("none", 200, NULL, <<>>)
    /\ pre = NoHistory

\* One listing per store
NextQuery ==
    /\ last.kind = "none"
    /\ \E r \in Reqs, q \in QInputs, sort \in SortInputs : Home(r, q, sort, <<>>)

SpecQuery == InitQuery /\ [][NextQuery]_vars

-----------------------------------------------------------------------------
(* Properties *)

Range(s) == { s[i] : i \in DOMAIN s }

\* sub occurs in s as a contiguous run
Contains(sub, s) ==
    \E i \in 1..(Len(s) - Len(sub) + 1) : SubSeq(s, i, i + Len(sub) - 1) = sub

ValidationMessage(resp) ==
    /\ resp.status = 200
    /\ resp.message # NULL
    /\ resp.message[1] \in {"NameRequired", "FieldsRequired"}

ConflictMessage(resp, isbn) ==
    /\ resp.status = 200
    /\ resp.message = <<"IsbnExists", isbn>>

\* The author of the book a slot's latest delete_book named, as it found it
DeletedAuthor(r) == pre[r].books[pre[r].book_id].author_id

\* A slot's latest delete_book ran from start to end with no other write between
RanAlone(r) == pc[r] = "idle" /\ pre[r].on

C2_IsbnUnique ==
    \A b1, b2 \in DOMAIN books : b1 # b2 => books[b1].isbn # books[b2].isbn

\* two books are stored and a further add_book with a stored ISBN was refused
C2_Witness ==
    /\ Cardinality(DOMAIN books) = 2
    /\ last.kind = "add_book"
    /\ last.message # NULL
    /\ last.message[1] = "IsbnExists"
    /\ \E b \in DOMAIN books : books[b].isbn = last.message[2]

IsbnStored(isbn) == \E b \in DOMAIN books : books[b].isbn = isbn

\* C3: an add_book whose insert is attempted with the ISBN of a stored book ends
\* with the "ISBN already exists" message naming that ISBN and leaves both
\* tables exactly as they were.
C3_DuplicateIsbnRolledBack ==
    [][\A r \in Reqs :
           (pc[r] = "commit" /\ IsbnStored(lv[r].book.isbn) /\ AddBookCommit(r))
           => /\ ConflictMessage(last', lv[r].book.isbn)
              /\ authors' = authors
              /\ books' = books]_vars

\* the ISBN "2", sent as "2 ", was refused while the book holding it is stored
C3_Witness ==
    /\ last.kind = "add_book"
    /\ last.message = <<"IsbnExists", <<50>>>>
    /\ \E b \in DOMAIN books : books[b].isbn = <<50>>
    /\ \A r \in Reqs : pc[r] = "idle"

\* C4: a delete_book of an existing book that runs to its end with no other
\* write between removes that book, removes its author exactly when the book
\* was the author's only one, and leaves every other row as it was.
C4_DeleteBookAlone ==
    \A r \in Reqs :
        RanAlone(r) =>
            LET P    == pre[r]
                b    == P.book_id
                a    == DeletedAuthor(r)
                only == \A x \in DOMAIN P.books : P.books[x].author_id = a => x = b
            IN  /\ books = [k \in DOMAIN P.books \ {b} |-> P.books[k]]
                /\ authors = IF only
                             THEN [k \in DOMAIN P.authors \ {a} |-> P.authors[k]]
                             ELSE P.authors

\* the only book of one of two authors was deleted: that author went with it,
\* the other author and the other book stayed
C4_Witness ==
    \E r \in Reqs :
        /\ RanAlone(r)
        /\ Cardinality(DOMAIN pre[r].authors) = 2
        /\ Cardinality(DOMAIN pre[r].books) = 2
        /\ DOMAIN authors = DOMAIN pre[r].authors \ {DeletedAuthor(r)}
        /\ DOMAIN books = DOMAIN pre[r].books \ {pre[r].book_id}

C6_EmptyNameIsValidationError ==
    [][\A r \in Reqs, form \in AuthorForms :
           (AddAuthor(r, form) /\ Strip(form.name) = <<>>)
           => /\ last'.status = 200
              /\ last'.message = <<"NameRequired">>
              /\ authors' = authors]_vars

MalformedDate(raw) == Strip(raw) # <<>> /\ ~IsIsoDate(Strip(raw))

MalformedYear(form) ==
    /\ Strip(form.publication_year) # <<>>
    /\ ~IsIntLiteral(Strip(form.publication_year))

\* C7: an add_author with a malformed date and an add_book with a malformed
\* publication_year each end with a validation message shown to the user and
\* store nothing.
C7_MalformedInputIsValidationError ==
    [][/\ \A r \in Reqs, form \in AuthorForms :
              (AddAuthor(r, form)
                 /\ (MalformedDate(form.birth_date) \/ MalformedDate(form.date_of_death)))
              => (ValidationMessage(last') /\ authors' = authors /\ books' = books)
       /\ \A r \in Reqs, form \in BookForms :
              (AddBookPost(r, form) /\ MalformedYear(form))
              => (ValidationMessage(last') /\ authors' = authors /\ books' = books)]_vars

\* rows are in author order, ties in title order
AuthorThenTitle(rows) ==
    \A i \in 1..(Len(rows) - 1) :
        \/ StrLess(rows[i].author, rows[i + 1].author)
        \/ /\ rows[i].author = rows[i + 1].author
           /\ ~StrLess(rows[i + 1].title, rows[i].title)

\* rows are in title order
TitleOnly(rows) ==
    \A i \in 1..(Len(rows) - 1) : ~StrLess(rows[i + 1].title, rows[i].title)

\* C8: the listing is ordered by author name and then title when sort is
\* "author", by title for every other sort value; the sort value does not change
\* which books are listed, each book is listed once, and no row is changed.
C8_ListOrder ==
    /\ [](last.kind = "home" =>
            /\ IF last.sort = "author" THEN AuthorThenTitle(last.rows)
                                       ELSE TitleOnly(last.rows)
            /\ Range(last.rows) = Filtered(last.q)
            /\ Len(last.rows) = Cardinality(Filtered(last.q)))
    /\ [][authors' = authors /\ books' = books]_vars

\* three books listed by author: two of one author in title order, then a book
\* of a later author whose title sorts first
C8_Witness ==
    /\ last.kind = "home"
    /\ last.sort = "author"
    /\ Len(last.rows) = 3
    /\ last.rows[1].author = last.rows[2].author
    /\ StrLess(last.rows[1].title, last.rows[2].title)
    /\ StrLess(last.rows[2].author, last.rows[3].author)
    /\ StrLess(last.rows[3].title, last.rows[2].title)

\* The books the filter text names: all of them when it is empty, otherwise those
\* with the text, compared without case, inside the title, the ISBN or the author
Named(q) ==
    IF q = <<>> THEN Joined
    ELSE { row \in Joined :
             \/ Contains(LowerStr(q), LowerStr(row.title))
             \/ Contains(LowerStr(q), LowerStr(row.isbn))
             \/ Contains(LowerStr(q), LowerStr(row.author)) }

\* C9: with no filter text (absent, or empty after trimming) the listing holds
\* every book; with a filter text it holds exactly the books in which the text
\* occurs, compared without case, in the title, the ISBN or the author's name.
C9_FilterIsSubstring ==
    last.kind = "home" =>
        /\ Range(last.rows) = Named(last.q)
        /\ last.q = <<>> => { row.id : row \in Range(last.rows) } = DOMAIN books

\* C10: delete_book removes the book and the author in two steps, never in one;
\* once a delete_book has run to its end with no other write between, the
\* author it left without books is gone.
C10_CascadeWindow ==
    /\ [](\A r \in Reqs :
              (RanAlone(r) /\ BooksOf(DeletedAuthor(r)) = {})
              => DeletedAuthor(r) \notin DOMAIN authors)
    /\ [][~(DOMAIN books' # DOMAIN books /\ DOMAIN authors' # DOMAIN authors)]_vars

\* between the two commits, with no other write since delete_book began: the book
\* is gone, its author is still there without books, and a listing issued by the
\* other slot has answered with no books
C10_Witness ==
    \E r \in Reqs :
        /\ pc[r] \in {"count", "author"}
        /\ pre[r].on
        /\ lv[r].book_id \notin DOMAIN books
        /\ lv[r].author_id \in DOMAIN authors
        /\ BooksOf(lv[r].author_id) = {}
        /\ last = Rendered(<<>>, "title", <<>>, NULL)

====
